---- MODULE Spec2Model ----
(***************************************************************************)
(* State-machine model of the Nerfdrone dashboard controller               *)
(* (src/nerfdrone/interface/static/js/dashboard.js), together with the tab *)
(* controller of the dashboard script listed in src/README.md.             *)
(*                                                                         *)
(* The page is single-threaded: every event handler runs to completion,    *)
(* and an async handler is suspended only at its await of safeJsonFetch.   *)
(* Each action below is one handler run, or the part of an async handler   *)
(* before / after its await.                                               *)
(*                                                                         *)
(* The log panel is modelled as the sequence of its messages, newest       *)
(* first; the ISO timestamp prefix of each line is left out. Texts are     *)
(* kept in ASCII: "-" stands for the dash glyphs of the rendered texts and *)
(* "GBP " for the pound sign of formatCurrency.                            *)
(***************************************************************************)
EXTENDS Integers, Sequences, FiniteSets, TLC

VARIABLES
    activeMap,      \* state.activeMap
    drawnGeoJson,   \* state.drawnGeoJson
    areaInput,      \* value of the #area-geojson input
    log,            \* lines of #survey-debug, newest first
    leafletDrawn,   \* the layer last added to state.leaflet.drawnItems, as edited
    googleMap,      \* state.google.map is set
    googlePolygon,  \* state.google.polygon (the overlay object, as edited)
    routeInFlight,  \* payloads of the /plan-route requests awaiting a response
    routeOutput,    \* text of #route-output
    lastEvent,      \* history: the most recent draw/edit/delete event
    surveyCaptures, \* state.surveyCaptures
    surveyList,     \* items of #survey-days: the capture each button shows
    baseSelect,     \* options of #base-capture-select
    targetSelect,   \* options of #target-capture-select
    surveySummary,  \* text of #survey-summary
    pointCloudLink, \* href of the link in #point-cloud-link
    assetTable,     \* body rows of the table in #asset-table
    leafletOverlay, \* layers of state.leaflet.overlayLayer
    googleOverlay,  \* state.google.overlay (its path, when on the map)
    surveyInFlight, \* ids of the /survey-days requests awaiting a response
    surveySent,     \* number of /survey-days requests issued so far
    surveyLast,     \* history: the /survey-days response handled last
    annotationInFlight, \* /annotate-asset requests awaiting a response
    annotationOutput,   \* text of #annotation-output
    financeSnapshot,    \* state.finance.snapshot
    selectedId,         \* state.finance.selectedId
    incomeRows,         \* rows of #income-body
    expenseRows,        \* rows of #expense-body
    financeForm,        \* fields of #finance-duplicate-form
    financeSummary,     \* text of #finance-selection-summary
    financeOutput,      \* text of #finance-output
    financeInFlight,    \* finance requests awaiting a response
    financeSent,        \* number of finance requests issued so far
    financeLast,        \* history: the finance response handled last
    activeTab,          \* state.activeTab
    tabButtons,         \* tabs whose .tab-button is active (aria-selected)
    tabPanels,          \* tabs whose .tab-panel is active
    sidebar,            \* texts of #sidebar-title, -description and -tips
    subButtons,         \* per container: targets of its active .subnav-button
    subPanels,          \* per container: ids of its active .subpanel
    leafletMap,         \* state.leaflet.map is set
    hiddenMaps,         \* map containers that carry the class hidden
    relayouts,          \* adapters with an invalidateSize timer pending
    panelOutput,        \* texts of #upload-, #classify- and #comparison-output
    panelInFlight,      \* requests of those panels awaiting a response
    drawnItems,         \* layers of state.leaflet.drawnItems, oldest first
    googleShown         \* drawn overlays shown on the Google map, oldest first

geoVars == <<drawnGeoJson, areaInput>>
mapVars == <<leafletDrawn, drawnItems, leafletMap, googleMap, googlePolygon, googleShown>>
routeVars == <<routeInFlight, routeOutput>>
surveyViews == <<surveyList, baseSelect, targetSelect>>
detailVars == <<surveySummary, pointCloudLink, assetTable, leafletOverlay, googleOverlay>>
surveyNet == <<surveyInFlight, surveySent, surveyLast>>
annotationVars == <<annotationInFlight, annotationOutput>>
surveyVars == <<surveyCaptures, surveyViews, detailVars, surveyNet, annotationVars>>
financeViews == <<incomeRows, expenseRows>>
financeFormVars == <<financeForm, financeSummary>>
financeNet == <<financeInFlight, financeSent, financeLast>>
financeVars == <<financeSnapshot, selectedId, financeViews, financeFormVars,
                 financeOutput, financeNet>>
tabVars == <<activeTab, tabButtons, tabPanels, sidebar, subButtons, subPanels>>
layoutVars == <<hiddenMaps, relayouts>>
panelVars == <<panelOutput, panelInFlight>>
vars == <<activeMap, drawnGeoJson, areaInput, log, leafletDrawn, googleMap,
          googlePolygon, routeInFlight, routeOutput, lastEvent, surveyVars,
          financeVars, tabVars, leafletMap, layoutVars, panelVars, drawnItems,
          googleShown>>

----------------------------------------------------------------------------
(* Bounds of the model.                                                    *)

MaxCoord == 1       \* coordinates of drawn shapes range over 0..MaxCoord
MaxLog == 4         \* handlers that log are taken while fewer lines were logged since page load
MaxRouteLog == 2    \* the same, for the specification of the route form
MaxRoute == 1       \* /plan-route requests in flight at once
MaxLoads == 3       \* /survey-days requests issued in all
MaxSurveyLog == 3   \* log bound for the specification of the capture store
MaxAnnotations == 1 \* /annotate-asset requests in flight at once
MaxFinanceRequests == 3 \* finance requests issued in all
MaxFinanceLog == 2  \* log bound for the specification of the finance store
MaxStoresLog == 2    \* log bound for the specification of both stores
MaxRectangleLog == 4 \* log bound for the specification of drawn rectangles
MaxTabLog == 3       \* log bound for the specification of the tab controller
MaxMapsLog == 5      \* log bound for the specification of the provider toggle
MaxPanelRequests == 1 \* upload, classification, comparison requests in flight at once
MaxFetches == 2      \* /survey-days requests issued in the specification with fairness
MaxPath == 3         \* points of the path of a drawn polygon
MaxPolygonLog == 3   \* log bound for the specification of drawn polygons

----------------------------------------------------------------------------
(* Values.                                                                 *)

Null == [type |-> "null"]                   \* JavaScript null
NoShape == [kind |-> "none"]                \* no layer / no overlay object

Coord == 0..MaxCoord
LatLng(lat, lng) == [lat |-> lat, lng |-> lng]

\* Shapes the operator can draw: rectangles given by two opposite corners
\* (a zero-height one included) and polygons given by their path.
Rectangles ==
    {[kind |-> "rectangle", sw |-> LatLng(0, 0), ne |-> LatLng(n, MaxCoord)] :
        n \in Coord}
Polygons ==
    {[kind |-> "polygon",
      path |-> <<LatLng(0, 0), LatLng(0, MaxCoord), LatLng(MaxCoord, y)>>] :
        y \in Coord}
Shapes == Rectangles \cup Polygons

\* Every polygon of up to MaxPath path points taken among three places,
\* repeated points included.
PathPoints == {LatLng(0, 0), LatLng(0, 1), LatLng(1, 0)}
PathPolygons ==
    {[kind |-> "polygon", path |-> path] :
        path \in UNION {[1..n -> PathPoints] : n \in 1..MaxPath}}

\* Every rectangle of the grid, those of no width or no height included.
GridRectangles ==
    {[kind |-> "rectangle", sw |-> LatLng(s, w), ne |-> LatLng(n, e)] :
        s \in Coord, w \in Coord, n \in Coord, e \in Coord}

\* A GeoJSON position is [lng, lat].
Position(point) == <<point.lng, point.lat>>

PolygonGeometry(ring) == [type |-> "Polygon", coordinates |-> <<ring>>]

\* Leaflet's layer.toGeoJSON(): a Feature whose geometry is the closed ring of
\* the layer's latlngs; a rectangle layer keeps its corners as
\* south-west, north-west, north-east, south-east.
LeafletLatLngs(shape) ==
    IF shape.kind = "rectangle"
    THEN <<shape.sw, LatLng(shape.ne.lat, shape.sw.lng),
           shape.ne, LatLng(shape.sw.lat, shape.ne.lng)>>
    ELSE shape.path

CloseRing(ring) ==
    IF Len(ring) > 0 /\ ring[1] # ring[Len(ring)] THEN Append(ring, ring[1])
    ELSE ring

LeafletToGeoJSON(shape) ==
    LET latlngs == LeafletLatLngs(shape)
        ring == [i \in 1..Len(latlngs) |-> Position(latlngs[i])]
    IN  [type |-> "Feature",
         geometry |-> PolygonGeometry(CloseRing(ring))]

\* A rectangle ring that leaves out a corner equal to the one before it.
GoogleRectangleRing_DistinctCorners(bounds) ==
    LET ring == <<<<bounds.sw.lng, bounds.sw.lat>>,
                  <<bounds.ne.lng, bounds.sw.lat>>,
                  <<bounds.ne.lng, bounds.ne.lat>>,
                  <<bounds.sw.lng, bounds.ne.lat>>,
                  <<bounds.sw.lng, bounds.sw.lat>>>>
        kept == {i \in 1..5 : i = 1 \/ ring[i] # ring[i - 1]}
        Nth(k) == CHOOSE i \in kept : Cardinality({j \in kept : j <= i}) = k
    IN  [k \in 1..Cardinality(kept) |-> ring[Nth(k)]]

\* The overlaycomplete handler's conversion of a Google overlay.
GoogleRectangleRing(bounds) ==
    <<<<bounds.sw.lng, bounds.sw.lat>>,
      <<bounds.ne.lng, bounds.sw.lat>>,
      <<bounds.ne.lng, bounds.ne.lat>>,
      <<bounds.sw.lng, bounds.ne.lat>>,
      <<bounds.sw.lng, bounds.sw.lat>>>>

\* A path ring without the copy of the first point at its end.
GooglePathRing_Unclosed(path) ==
    [index \in 1..Len(path) |-> <<path[index].lng, path[index].lat>>]

GooglePathRing(path) ==
    Append([index \in 1..Len(path) |-> <<path[index].lng, path[index].lat>>],
           <<path[1].lng, path[1].lat>>)

GoogleToGeoJSON(overlay) ==
    IF overlay.kind = "rectangle"
    THEN PolygonGeometry(GoogleRectangleRing(overlay))
    ELSE PolygonGeometry(GooglePathRing(overlay.path))

----------------------------------------------------------------------------
(* JSON.stringify of the geometries above.                                 *)

RECURSIVE JoinComma(_)
JoinComma(strs) ==
    IF Len(strs) = 0 THEN ""
    ELSE IF Len(strs) = 1 THEN strs[1]
    ELSE strs[1] \o "," \o JoinComma(Tail(strs))

StringifyPosition(pos) == "[" \o ToString(pos[1]) \o "," \o ToString(pos[2]) \o "]"

StringifyRing(ring) ==
    "[" \o JoinComma([i \in 1..Len(ring) |-> StringifyPosition(ring[i])]) \o "]"

StringifyPolygon(geometry) ==
    "{\"type\":\"Polygon\",\"coordinates\":["
        \o JoinComma([i \in 1..Len(geometry.coordinates) |->
                        StringifyRing(geometry.coordinates[i])])
        \o "]}"

JSONstringify(geojson) ==
    IF geojson.type = "Feature"
    THEN "{\"type\":\"Feature\",\"properties\":{},\"geometry\":"
            \o StringifyPolygon(geojson.geometry) \o "}"
    ELSE StringifyPolygon(geojson)

\* Truthiness of a geometry value: null is falsy, every object is truthy.
Truthy(value) == value # Null

----------------------------------------------------------------------------
(* Logging sink and Geometry Canonicalizer.                                *)

appendLog(lines, message) == <<message>> \o lines

setDrawnGeometry_KeepInputOnClear(geojson) ==
    /\ drawnGeoJson' = geojson
    /\ areaInput' = IF Truthy(geojson) THEN JSONstringify(geojson) ELSE areaInput
    /\ log' = appendLog(log, IF Truthy(geojson)
                             THEN "Updated capture polygon from map interaction."
                             ELSE "Cleared capture polygon.")

setDrawnGeometry(geojson) ==
    /\ drawnGeoJson' = geojson
    /\ areaInput' = IF Truthy(geojson) THEN JSONstringify(geojson) ELSE ""
    /\ log' = appendLog(log, IF Truthy(geojson)
                             THEN "Updated capture polygon from map interaction."
                             ELSE "Cleared capture polygon.")

\* History of the adapters' events: which adapter, which kind, and how far the
\* run draw, edit, delete, draw has got on that adapter without an event of
\* the other adapter in between (0 when the event does not continue the run).
Event(adapter, kind) ==
    [adapter |-> adapter, kind |-> kind,
     run |-> IF kind = "draw" /\ lastEvent.adapter = adapter /\ lastEvent.run = 3
                THEN 4
             ELSE IF kind = "draw" THEN 1
             ELSE IF kind = "edit" /\ lastEvent.adapter = adapter
                     /\ lastEvent.run = 1 THEN 2
             ELSE IF kind = "delete" /\ lastEvent.adapter = adapter
                     /\ lastEvent.run = 2 THEN 3
             ELSE 0]

----------------------------------------------------------------------------
(* Leaflet adapter.                                                        *)

\* The CREATED handler's change of drawnItems without clearLayers().
AddDrawnLayer_NoClear(layers, layer) == Append(layers, layer)

\* The CREATED handler's change of drawnItems: clearLayers(), then addLayer().
AddDrawnLayer(layers, layer) ==
    LET cleared == SubSeq(layers, 1, 0)
    IN  Append(cleared, layer)

\* L.Draw.Event.CREATED
LeafletCreated(shape) ==
    /\ leafletMap
    /\ leafletDrawn' = shape
    /\ drawnItems' = AddDrawnLayer(drawnItems, shape)
    /\ setDrawnGeometry(LeafletToGeoJSON(shape))
    /\ lastEvent' = Event("leaflet", "draw")
    /\ UNCHANGED <<activeMap, layoutVars, panelVars, tabVars, leafletMap, googleMap, googlePolygon,
                   googleShown, routeVars>>
    /\ UNCHANGED <<surveyVars, financeVars>>

\* L.Draw.Event.EDITED: the one layer of drawnItems was reshaped.
LeafletEdited(shape) ==
    /\ leafletDrawn # NoShape
    /\ shape.kind = leafletDrawn.kind
    /\ shape # leafletDrawn
    /\ leafletDrawn' = shape
    /\ drawnItems' = [drawnItems EXCEPT ![Len(drawnItems)] = shape]
    /\ setDrawnGeometry(LeafletToGeoJSON(shape))
    /\ lastEvent' = Event("leaflet", "edit")
    /\ UNCHANGED <<activeMap, layoutVars, panelVars, tabVars, leafletMap, googleMap, googlePolygon,
                   googleShown, routeVars>>
    /\ UNCHANGED <<surveyVars, financeVars>>

\* L.Draw.Event.DELETED: fired when the delete tool is saved, with the layer
\* removed from drawnItems or with nothing removed.
LeafletDeleted(removed) ==
    /\ leafletDrawn # NoShape
    /\ leafletDrawn' = IF removed THEN NoShape ELSE leafletDrawn
    /\ drawnItems' = IF removed THEN SubSeq(drawnItems, 1, Len(drawnItems) - 1)
                      ELSE drawnItems
    /\ setDrawnGeometry(Null)
    /\ lastEvent' = Event("leaflet", "delete")
    /\ UNCHANGED <<activeMap, layoutVars, panelVars, tabVars, leafletMap, googleMap, googlePolygon,
                   googleShown, routeVars>>
    /\ UNCHANGED <<surveyVars, financeVars>>

----------------------------------------------------------------------------
(* Google adapter.                                                         *)

\* The overlaycomplete handler's change of the overlays on the map:
\* state.google.polygon, the overlay shown last, is taken off the map with
\* setMap(null) when it is set; the drawing manager has put the new one on.
ShowOverlay(shown, polygon, overlay) ==
    LET kept == IF polygon # NoShape THEN SubSeq(shown, 1, Len(shown) - 1) ELSE shown
    IN  Append(kept, overlay)

\* overlaycomplete
GoogleOverlayComplete(overlay) ==
    /\ googleMap
    /\ googlePolygon' = overlay
    /\ googleShown' = ShowOverlay(googleShown, googlePolygon, overlay)
    /\ setDrawnGeometry(GoogleToGeoJSON(overlay))
    /\ lastEvent' = Event("google", "draw")
    /\ UNCHANGED <<activeMap, layoutVars, panelVars, tabVars, leafletDrawn, drawnItems,
                   leafletMap, googleMap, routeVars>>
    /\ UNCHANGED <<surveyVars, financeVars>>

\* The operator reshapes the editable overlay. The overlays are created with
\* editable: true, and no listener is registered for their changes.
GoogleEdited(overlay) ==
    /\ googleMap
    /\ googlePolygon # NoShape
    /\ overlay.kind = googlePolygon.kind
    /\ overlay # googlePolygon
    /\ googlePolygon' = overlay
    /\ googleShown' = [googleShown EXCEPT ![Len(googleShown)] = overlay]
    /\ lastEvent' = Event("google", "edit")
    /\ UNCHANGED <<activeMap, layoutVars, panelVars, tabVars, geoVars, log, leafletDrawn,
                   drawnItems, leafletMap, googleMap, routeVars>>
    /\ UNCHANGED <<surveyVars, financeVars>>

----------------------------------------------------------------------------
(* Network Client.                                                         *)

\* An optional value: <<>> when the field is missing (undefined), <<v>> when
\* it is present.
None == <<>>
Some(v) == <<v>>
IsSome(option) == Len(option) = 1
TheValue(option) == option[1]

\* A response as seen by fetch: net is FALSE when fetch itself rejects
\* (network unreachable); otherwise ok is response.ok and body is the body.
\* A body is either not JSON, or a JSON object with an optional non-empty
\* detail string and an optional endpoint-specific value.
NetworkFailure == [net |-> FALSE, ok |-> FALSE, json |-> FALSE, detail |-> "", value |-> None]
HttpResponse(ok, json, detail, value) ==
    [net |-> TRUE, ok |-> ok, json |-> json, detail |-> detail, value |-> value]

Details == {"", "backend rejected the request"}

\* The failures a backend can produce, and the successes carrying one of values.
FailureResponses ==
    {NetworkFailure} \cup
    {HttpResponse(FALSE, FALSE, "", None)} \cup
    {HttpResponse(FALSE, TRUE, detail, None) : detail \in Details}
SuccessResponses(values) ==
    {HttpResponse(TRUE, FALSE, "", None), HttpResponse(TRUE, TRUE, "", None)} \cup
    {HttpResponse(TRUE, TRUE, "", Some(v)) : v \in values}

\* JSON.stringify of a payload that carries no value.
StringifyPayload(payload) ==
    IF payload.detail = "" THEN "{}"
    ELSE "{\"detail\":\"" \o payload.detail \o "\"}"

\* safeJsonFetch: either returns the payload or throws an Error with a message.
Return(payload) == [threw |-> FALSE, message |-> "", payload |-> payload]
Throw(message) ==
    [threw |-> TRUE, message |-> message, payload |-> [detail |-> "", value |-> None]]

safeJsonFetch(response) ==
    IF ~response.net THEN Throw("Failed to fetch")
    ELSE LET payload == IF response.json
                        THEN [detail |-> response.detail, value |-> response.value]
                        ELSE [detail |-> "", value |-> None]
         IN  IF ~response.ok
             THEN Throw(IF payload.detail # "" THEN payload.detail
                        ELSE StringifyPayload(payload))
             ELSE Return(payload)

----------------------------------------------------------------------------
(* Provider toggle and route form.                                         *)

Providers == {"osm", "google"}

MapContainers == {"leaflet-map", "google-map"}

\* A toggle that never shows the Google container.
HiddenAfterToggle_GoogleStaysHidden(provider) == {"google-map"}

\* classList.toggle('hidden', force) on the two map containers.
HiddenAfterToggle(provider) ==
    {container \in MapContainers :
        \/ container = "leaflet-map" /\ provider # "osm"
        \/ container = "google-map" /\ provider # "google"}

toggleMap(provider) ==
    /\ activeMap' = provider
    /\ hiddenMaps' = HiddenAfterToggle(provider)
    /\ log' = appendLog(log, "Switched basemap to " \o provider \o ".")
    /\ UNCHANGED <<tabVars, geoVars, mapVars, routeVars, lastEvent, relayouts,
                   panelVars>>
    /\ UNCHANGED <<surveyVars, financeVars>>

\* The operator types into the area field of the route form.
TypedTexts == {"", "{\"type\":\"Point\"}"}
OperatorEditsAreaField(text) ==
    /\ text # areaInput
    /\ areaInput' = text
    /\ UNCHANGED <<activeMap, layoutVars, panelVars, tabVars, drawnGeoJson, log, mapVars, routeVars, lastEvent>>
    /\ UNCHANGED <<surveyVars, financeVars>>

\* The area_geojson entry of the FormData that submitRoute sends: the form's
\* own field, overwritten when a geometry is held.
RoutePayloadGeometry_FormOnly == areaInput

RoutePayloadGeometry ==
    IF Truthy(drawnGeoJson) THEN JSONstringify(drawnGeoJson) ELSE areaInput

\* submitRoute up to its await.
SubmitRoute ==
    /\ Len(routeInFlight) < MaxRoute
    /\ routeInFlight' = Append(routeInFlight, [area_geojson |-> RoutePayloadGeometry])
    /\ UNCHANGED <<activeMap, layoutVars, panelVars, tabVars, geoVars, log, mapVars, routeOutput, lastEvent>>
    /\ UNCHANGED <<surveyVars, financeVars>>

\* JSON.stringify(payload, null, 2) of an acknowledgement with one field.
RoutePlans == {"grid"}
PrettyPayload(payload, key) ==
    IF IsSome(payload.value)
    THEN "{\n  \"" \o key \o "\": \"" \o TheValue(payload.value) \o "\"\n}"
    ELSE "{}"

\* The responses to /plan-route.
RouteResponses == FailureResponses \cup SuccessResponses(RoutePlans)

\* submitRoute after its await: the response of one request in flight arrives.
RouteResponse(i, response) ==
    /\ i \in 1..Len(routeInFlight)
    /\ routeInFlight' = [j \in 1..(Len(routeInFlight) - 1) |->
                            IF j < i THEN routeInFlight[j] ELSE routeInFlight[j + 1]]
    /\ LET result == safeJsonFetch(response)
       IN  routeOutput' = IF result.threw
                          THEN "Route planning failed: " \o result.message
                          ELSE PrettyPayload(result.payload, "plan")
    /\ UNCHANGED <<activeMap, layoutVars, panelVars, tabVars, geoVars, log, mapVars, lastEvent>>
    /\ UNCHANGED <<surveyVars, financeVars>>

----------------------------------------------------------------------------
(* Review State Store: survey captures.                                    *)

CaptureIds == {"cap-1", "cap-2"}

Asset(k) ==
    [asset_id |-> "asset-" \o ToString(k),
     classification |-> "stockpile",
     volume_cubic_m |-> k,
     annotations |-> IF k = 1 THEN <<>> ELSE <<"checked", "resurveyed">>]

\* The overlay of a capture: a GeoJSON Feature with a closed square ring.
OverlayOf(id) ==
    LET o == IF id = "cap-1" THEN 0 ELSE 2
    IN  [type |-> "Feature",
         geometry |-> PolygonGeometry(<<<<o, o>>, <<o + 1, o>>, <<o + 1, o + 1>>,
                                        <<o, o + 1>>, <<o, o>>>>)]

\* A capture as the backend sends it, with n detected assets.
CaptureWith(id, n) ==
    [capture_id |-> id,
     name |-> "Survey " \o id,
     captured_on |-> IF id = "cap-1" THEN "2024-05-01" ELSE "2024-06-01",
     asset_count |-> n,
     overlay |-> OverlayOf(id),
     point_cloud_path |-> "/exports/" \o id \o ".ply",
     assets |-> [k \in 1..n |-> Asset(k)]]

\* The first capture has no asset, the second has two.
Capture(id) == CaptureWith(id, IF id = "cap-1" THEN 0 ELSE 2)

Captures == {Capture(id) : id \in CaptureIds}

\* The capture collections a backend can send: no capture, one, or one of
\* each id in either order.
Collections ==
    {<<>>} \cup {<<c>> : c \in Captures} \cup
    {pair \in {<<c, d>> : c \in Captures, d \in Captures} :
        pair[1].capture_id # pair[2].capture_id}

Elements(list) == {list[i] : i \in 1..Len(list)}

\* renderSurveyList: the previous items are dropped, and one button per
\* capture is appended, each showing the capture it was made for.
SurveyItem(capture) ==
    [capture |-> capture,
     text |-> capture.name \o " - " \o capture.captured_on]

renderSurveyList_Appending(items, captures) ==
    items \o [i \in 1..Len(captures) |-> SurveyItem(captures[i])]

renderSurveyList(items, captures) ==
    [i \in 1..Len(captures) |-> SurveyItem(captures[i])]

\* populateSurveySelects: the options of one selector.
SurveyOption(capture) ==
    [value |-> capture.capture_id,
     text |-> capture.name \o " (" \o capture.captured_on \o ")"]

populateSurveySelects(captures) ==
    [i \in 1..Len(captures) |-> SurveyOption(captures[i])]

\* state.surveyCaptures = payload.captures
ReplaceCollection_Merging(stored, received) ==
    IF IsSome(stored) /\ IsSome(received)
    THEN Some(TheValue(stored) \o TheValue(received))
    ELSE received

ReplaceCollection_KeepFirst(stored, received) ==
    IF IsSome(stored) /\ TheValue(stored) # <<>> THEN stored ELSE received

ReplaceCollection(stored, received) == received

\* A loadSurveyDays call that drops the requests still in flight.
StartSurveyLoad_Cancelling ==
    /\ surveySent' = surveySent + 1
    /\ surveyInFlight' = {surveySent + 1}

\* loadSurveyDays up to its await.
StartSurveyLoad ==
    /\ surveySent' = surveySent + 1
    /\ surveyInFlight' = surveyInFlight \cup {surveySent + 1}

\* The loads submitAnnotation awaits: every load but the one of page load.
AwaitedByAnnotation(id) == id > (IF leafletMap THEN 1 ELSE 0)

\* loadSurveyDays without its catch block: its errors reach the caller.
LoadRejection_NoCatch(result, received) ==
    IF result.threw THEN Some(result.message)
    ELSE IF ~IsSome(received)
    THEN Some("Cannot read properties of undefined (reading 'forEach')")
    ELSE None

\* The error loadSurveyDays hands to the caller awaiting it: none, its catch
\* block consumes whatever the fetch or the rendering throws.
LoadRejection(result, received) == None

\* loadSurveyDays after its await: the response of request id arrives. When
\* submitAnnotation awaits the load, an error of the load would reach the
\* catch block of submitAnnotation.
SurveyResponse(id, response) ==
    /\ id \in surveyInFlight
    /\ surveyInFlight' = surveyInFlight \ {id}
    /\ surveyLast' = [id |-> id, response |-> response]
    /\ LET result == safeJsonFetch(response)
           received == ReplaceCollection(surveyCaptures, result.payload.value)
       IN  IF result.threw
           THEN /\ log' = appendLog(log, "Failed to load survey days: " \o result.message)
                /\ UNCHANGED <<surveyCaptures, surveyViews>>
           ELSE IF ~IsSome(received)
           THEN \* captures.forEach throws in renderSurveyList, after the list
                \* was emptied; the error is caught by loadSurveyDays.
                /\ surveyCaptures' = received
                /\ surveyList' = <<>>
                /\ log' = appendLog(log, "Failed to load survey days: "
                            \o "Cannot read properties of undefined (reading 'forEach')")
                /\ UNCHANGED <<baseSelect, targetSelect>>
           ELSE /\ surveyCaptures' = received
                /\ surveyList' = renderSurveyList(surveyList, TheValue(received))
                /\ log' = appendLog(log, "Survey list rendered.")
                /\ baseSelect' = populateSurveySelects(TheValue(received))
                /\ targetSelect' = populateSurveySelects(TheValue(received))
    /\ LET result == safeJsonFetch(response)
           rejection == LoadRejection(result,
                            ReplaceCollection(surveyCaptures, result.payload.value))
       IN  annotationOutput' =
                IF AwaitedByAnnotation(id) /\ IsSome(rejection)
                THEN "Annotation failed: " \o TheValue(rejection)
                ELSE annotationOutput
    /\ UNCHANGED <<activeMap, layoutVars, panelVars, tabVars, geoVars, mapVars, routeVars, lastEvent, surveySent,
                   detailVars, annotationInFlight>>
    /\ UNCHANGED financeVars

\* The rendering of one capture's details.
SummaryText(capture) ==
    capture.name \o " captured on " \o capture.captured_on \o ". "
        \o ToString(capture.asset_count) \o " assets detected."

\* Number.prototype.toFixed(2) of a whole number of cubic metres.
ToFixed2(volume) == ToString(volume) \o ".00"

RECURSIVE JoinWith(_, _)
JoinWith(strs, separator) ==
    IF Len(strs) = 0 THEN ""
    ELSE IF Len(strs) = 1 THEN strs[1]
    ELSE strs[1] \o separator \o JoinWith(Tail(strs), separator)

AssetRow(asset) ==
    [asset |-> asset.asset_id,
     class |-> asset.classification,
     volume |-> ToFixed2(asset.volume_cubic_m),
     notes |-> IF JoinWith(asset.annotations, "; ") # ""
               THEN JoinWith(asset.annotations, "; ") ELSE "-"]

AssetRows(capture) == [k \in 1..Len(capture.assets) |-> AssetRow(capture.assets[k])]

\* The path of the Google overlay polygon of a capture.
GoogleOverlayPath(capture) ==
    LET ring == capture.overlay.geometry.coordinates[1]
    IN  [i \in 1..Len(ring) |-> LatLng(ring[i][2], ring[i][1])]

\* updateMapOverlay on the Leaflet layer group without clearLayers().
ShowLeafletOverlay_NoClear(layers, capture) == Append(layers, capture.overlay)

\* updateMapOverlay on the Leaflet layer group: clearLayers(), then addLayer().
ShowLeafletOverlay(layers, capture) ==
    LET cleared == SubSeq(layers, 1, 0)
    IN  Append(cleared, capture.overlay)

\* showSurveyDetails, with the updateMapOverlay call that ends it.
showSurveyDetails(capture) ==
    /\ surveySummary' = SummaryText(capture)
    /\ pointCloudLink' = capture.point_cloud_path
    /\ assetTable' = AssetRows(capture)
    /\ log' = appendLog(log, "Loaded survey details for " \o capture.capture_id \o ".")
    /\ leafletOverlay' = IF leafletMap THEN ShowLeafletOverlay(leafletOverlay, capture)
                         ELSE leafletOverlay
    /\ googleOverlay' = IF googleMap THEN Some(GoogleOverlayPath(capture))
                        ELSE googleOverlay
    /\ UNCHANGED <<activeMap, layoutVars, panelVars, tabVars, geoVars, mapVars, routeVars, lastEvent, surveyCaptures,
                   surveyViews, surveyNet, annotationVars>>
    /\ UNCHANGED financeVars

\* A click on the i-th button of the capture list.
SelectCapture(i) ==
    /\ i \in 1..Len(surveyList)
    /\ showSurveyDetails(surveyList[i].capture)

\* submitAnnotation up to its await.
SubmitAnnotation ==
    /\ annotationInFlight < MaxAnnotations
    /\ annotationInFlight' = annotationInFlight + 1
    /\ UNCHANGED <<activeMap, layoutVars, panelVars, tabVars, geoVars, log, mapVars, routeVars, lastEvent,
                   surveyCaptures, surveyViews, detailVars, surveyNet, annotationOutput>>
    /\ UNCHANGED financeVars

\* submitAnnotation after its await; on success loadSurveyDays is started.
Acknowledgements == {"saved"}
AnnotationResponses == FailureResponses \cup SuccessResponses(Acknowledgements)
AnnotationResponse(response) ==
    /\ annotationInFlight > 0
    /\ annotationInFlight' = annotationInFlight - 1
    /\ LET result == safeJsonFetch(response)
       IN  IF result.threw
           THEN /\ annotationOutput' = "Annotation failed: " \o result.message
                /\ UNCHANGED <<surveyInFlight, surveySent>>
           ELSE /\ annotationOutput' = PrettyPayload(result.payload, "status")
                /\ StartSurveyLoad
    /\ UNCHANGED <<activeMap, layoutVars, panelVars, tabVars, geoVars, log, mapVars, routeVars, lastEvent,
                   surveyCaptures, surveyViews, detailVars, surveyLast>>
    /\ UNCHANGED financeVars

----------------------------------------------------------------------------
(* Review State Store: finance snapshot and selection.                     *)

NoSelection == "null"                       \* state.finance.selectedId: null
TransactionIds == {"t1", "t2", "t3"}

\* The transactions of the backend: an income with metadata, an expense
\* without, and the copy a duplicate request creates.
Transaction(id) ==
    [transaction_id |-> id,
     description |-> IF id = "t1" THEN "Survey fee" ELSE "Batteries",
     category |-> IF id = "t1" THEN "services" ELSE "equipment",
     amount |-> IF id = "t1" THEN 250 ELSE 40,
     occurred_on |-> IF id = "t3" THEN "2024-06-02" ELSE "2024-06-01",
     transaction_type |-> IF id = "t1" THEN "income" ELSE "expense",
     metadata |-> IF id = "t1" THEN <<<<"client", "acme">>>> ELSE <<>>]

\* state.finance.snapshot: a snapshot with its two lists, an object without
\* them ({}), or undefined.
Snapshot(income, expenses) ==
    [kind |-> "snapshot", income |-> income, expenses |-> expenses]
ObjectWithoutLists == [kind |-> "object", income |-> <<>>, expenses |-> <<>>]
UndefinedSnapshot == [kind |-> "undefined", income |-> <<>>, expenses |-> <<>>]

Snapshots ==
    {Snapshot(income, expenses) :
        income \in {<<>>, <<Transaction("t1")>>},
        expenses \in {<<>>, <<Transaction("t2")>>,
                      <<Transaction("t2"), Transaction("t3")>>}}

DuplicateResults ==
    {[transaction |-> Transaction("t3"), snapshot |-> snapshot] : snapshot \in Snapshots}

\* formatCurrency of a whole amount below 1000.
formatCurrency(value) == "GBP " \o ToString(value) \o ".00"

renderMetadataSummary(metadata) ==
    IF Len(metadata) = 0 THEN "-"
    ELSE JoinWith([i \in 1..Len(metadata) |-> metadata[i][1] \o ": " \o metadata[i][2]],
                  ", ")

\* JSON.stringify(metadata, null, 2)
PrettyMetadata(metadata) ==
    "{\n" \o JoinWith([i \in 1..Len(metadata) |->
                         "  \"" \o metadata[i][1] \o "\": \"" \o metadata[i][2] \o "\""],
                      ",\n") \o "\n}"

\* renderRows of renderFinanceTables: the rows of one table body.
PlaceholderRow ==
    [transactionId |-> "", text |-> "No entries recorded yet.", amount |-> "",
     metadata |-> "", button |-> FALSE, selected |-> FALSE]

TransactionRow(transaction, selected) ==
    [transactionId |-> transaction.transaction_id,
     text |-> transaction.description,
     amount |-> formatCurrency(transaction.amount),
     metadata |-> renderMetadataSummary(transaction.metadata),
     button |-> TRUE,
     selected |-> selected = transaction.transaction_id]

\* renderRows without the branch for an empty list.
renderRows_NoPlaceholder(entries, selected) ==
    [i \in 1..Len(entries) |-> TransactionRow(entries[i], selected)]

renderRows(entries, selected) ==
    IF Len(entries) = 0 THEN <<PlaceholderRow>>
    ELSE [i \in 1..Len(entries) |-> TransactionRow(entries[i], selected)]

\* highlightFinanceSelection that adds the mark and never removes it.
highlightRows_AddOnly(rows, selected) ==
    [i \in 1..Len(rows) |->
        [rows[i] EXCEPT !.selected = (rows[i].selected \/ rows[i].transactionId = selected)]]

\* highlightFinanceSelection on the rows of one table body.
highlightRows(rows, selected) ==
    [i \in 1..Len(rows) |->
        [rows[i] EXCEPT !.selected = (rows[i].transactionId = selected
                                        /\ rows[i].transactionId # "")]]

\* state.finance.snapshot = snapshot
StoreSnapshot(stored, snapshot) == snapshot

\* renderFinanceTables: the snapshot is stored first; a snapshot without lists
\* makes renderRows throw after the income body was emptied, and an undefined
\* snapshot throws before any body is touched.
renderFinanceTables(snapshot) ==
    /\ financeSnapshot' = StoreSnapshot(financeSnapshot, snapshot)
    /\ incomeRows' = IF snapshot.kind = "snapshot"
                     THEN renderRows(snapshot.income, selectedId)
                     ELSE IF snapshot.kind = "object" THEN <<>>
                     ELSE incomeRows
    /\ expenseRows' = IF snapshot.kind = "snapshot"
                      THEN renderRows(snapshot.expenses, selectedId)
                      ELSE expenseRows

RenderThrows(snapshot) == snapshot.kind # "snapshot"
RenderErrorText(snapshot) ==
    IF snapshot.kind = "object"
    THEN "Cannot read properties of undefined (reading 'length')"
    ELSE "Cannot read properties of undefined (reading 'income')"

\* findFinanceTransaction on a stored snapshot with its two lists.
findFinanceTransaction(transactionId) ==
    LET entries == financeSnapshot.income \o financeSnapshot.expenses
        found == {i \in 1..Len(entries) : entries[i].transaction_id = transactionId}
    IN  IF found = {} THEN None
        ELSE Some(entries[CHOOSE i \in found : \A j \in found : i <= j])

EmptyForm ==
    [source_transaction_id |-> "", description |-> "", category |-> "",
     amount |-> "", occurred_on |-> "", transaction_type |-> "", metadata |-> ""]

\* prepareFinanceForm that leaves the metadata field alone when the
\* transaction has no metadata.
prepareFinanceForm_KeepMetadata(transaction) ==
    /\ financeForm' =
         [source_transaction_id |-> transaction.transaction_id,
          description |-> transaction.description,
          category |-> transaction.category,
          amount |-> ToString(transaction.amount),
          occurred_on |-> transaction.occurred_on,
          transaction_type |-> transaction.transaction_type,
          metadata |-> IF Len(transaction.metadata) # 0
                       THEN PrettyMetadata(transaction.metadata)
                       ELSE financeForm.metadata]
    /\ selectedId' = transaction.transaction_id
    /\ financeSummary' = "Duplicating " \o transaction.transaction_type \o " "
            \o transaction.transaction_id \o ". Adjust any fields before saving."
    /\ incomeRows' = highlightRows(incomeRows, transaction.transaction_id)
    /\ expenseRows' = highlightRows(expenseRows, transaction.transaction_id)

\* prepareFinanceForm without the assignment of state.finance.selectedId.
prepareFinanceForm_KeepSelectedId(transaction) ==
    /\ financeForm' =
         [source_transaction_id |-> transaction.transaction_id,
          description |-> transaction.description,
          category |-> transaction.category,
          amount |-> ToString(transaction.amount),
          occurred_on |-> transaction.occurred_on,
          transaction_type |-> transaction.transaction_type,
          metadata |-> IF Len(transaction.metadata) # 0
                       THEN PrettyMetadata(transaction.metadata) ELSE ""]
    /\ selectedId' = selectedId
    /\ financeSummary' = "Duplicating " \o transaction.transaction_type \o " "
            \o transaction.transaction_id \o ". Adjust any fields before saving."
    /\ incomeRows' = highlightRows(incomeRows, selectedId)
    /\ expenseRows' = highlightRows(expenseRows, selectedId)

prepareFinanceForm(transaction) ==
    /\ financeForm' =
         [source_transaction_id |-> transaction.transaction_id,
          description |-> transaction.description,
          category |-> transaction.category,
          amount |-> ToString(transaction.amount),
          occurred_on |-> transaction.occurred_on,
          transaction_type |-> transaction.transaction_type,
          metadata |-> IF Len(transaction.metadata) # 0
                       THEN PrettyMetadata(transaction.metadata) ELSE ""]
    /\ selectedId' = transaction.transaction_id
    /\ financeSummary' = "Duplicating " \o transaction.transaction_type \o " "
            \o transaction.transaction_id \o ". Adjust any fields before saving."
    /\ incomeRows' = highlightRows(incomeRows, transaction.transaction_id)
    /\ expenseRows' = highlightRows(expenseRows, transaction.transaction_id)

\* A click on a Duplicate button: the row's id is looked up in the stored
\* snapshot. The lookup throws when the stored snapshot has no lists, and a
\* transaction that is not found changes nothing; neither is a step.
ClickDuplicate(rows, i) ==
    /\ i \in 1..Len(rows)
    /\ rows[i].button
    /\ financeSnapshot.kind = "snapshot"
    /\ IsSome(findFinanceTransaction(rows[i].transactionId))
    /\ prepareFinanceForm(TheValue(findFinanceTransaction(rows[i].transactionId)))
    /\ UNCHANGED <<activeMap, layoutVars, panelVars, tabVars, geoVars, log, mapVars, routeVars, lastEvent, surveyVars,
                   financeSnapshot, financeOutput, financeNet>>

\* clearFinanceSelection without the reset of the source field.
clearFinanceSelection_KeepSource ==
    /\ financeForm' = [EmptyForm EXCEPT
            !.source_transaction_id = financeForm.source_transaction_id]
    /\ selectedId' = NoSelection
    /\ financeSummary' = "Select an entry to duplicate its details."
    /\ incomeRows' = highlightRows(incomeRows, NoSelection)
    /\ expenseRows' = highlightRows(expenseRows, NoSelection)
    /\ UNCHANGED <<activeMap, layoutVars, panelVars, tabVars, geoVars, log, mapVars, routeVars, lastEvent, surveyVars,
                   financeSnapshot, financeOutput, financeNet>>

clearFinanceSelection ==
    /\ financeForm' = EmptyForm
    /\ selectedId' = NoSelection
    /\ financeSummary' = "Select an entry to duplicate its details."
    /\ incomeRows' = highlightRows(incomeRows, NoSelection)
    /\ expenseRows' = highlightRows(expenseRows, NoSelection)
    /\ UNCHANGED <<activeMap, layoutVars, panelVars, tabVars, geoVars, log, mapVars, routeVars, lastEvent, surveyVars,
                   financeSnapshot, financeOutput, financeNet>>

\* loadFinanceTransactions / submitFinanceDuplicate: a request is issued.
FinanceRequest(kind, source) ==
    [id |-> financeSent + 1, kind |-> kind, source |-> source]

\* submitFinanceDuplicate up to its await, or its refusal when the form
\* names no source transaction.
SubmitFinanceDuplicate ==
    /\ IF financeForm.source_transaction_id = ""
       THEN /\ financeOutput' = "Choose an entry to duplicate before submitting."
            /\ UNCHANGED financeNet
       ELSE /\ financeSent < MaxFinanceRequests
            /\ financeSent' = financeSent + 1
            /\ financeInFlight' = financeInFlight \cup
                    {FinanceRequest("duplicate", financeForm.source_transaction_id)}
            /\ UNCHANGED <<financeOutput, financeLast>>
    /\ UNCHANGED <<activeMap, layoutVars, panelVars, tabVars, geoVars, log, mapVars, routeVars, lastEvent, surveyVars,
                   financeSnapshot, selectedId, financeViews, financeFormVars>>

\* The snapshot a payload hands to renderFinanceTables.
LoadedSnapshot(payload) ==
    IF IsSome(payload.value) THEN TheValue(payload.value) ELSE ObjectWithoutLists
DuplicateSnapshot(payload) ==
    IF IsSome(payload.value) THEN TheValue(payload.value).snapshot ELSE UndefinedSnapshot

\* JSON.stringify(payload.transaction, null, 2), by the transaction's id.
PrettyTransaction(transaction) ==
    "{\n  \"transaction_id\": \"" \o transaction.transaction_id \o "\"\n}"

\* The id the stored selection has after a finance response was handled.
SelectionAfterResponse_Cleared(selected) == NoSelection

SelectionAfterResponse(selected) == selected

\* loadFinanceTransactions after its await.
FinanceLoadResponse(request, response) ==
    /\ request \in financeInFlight
    /\ request.kind = "load"
    /\ financeInFlight' = financeInFlight \ {request}
    /\ financeLast' = [request |-> request, response |-> response]
    /\ selectedId' = SelectionAfterResponse(selectedId)
    /\ LET result == safeJsonFetch(response)
           snapshot == LoadedSnapshot(result.payload)
       IN  IF result.threw
           THEN /\ financeOutput' = "Failed to load finance data: " \o result.message
                /\ UNCHANGED <<financeSnapshot, financeViews>>
           ELSE /\ renderFinanceTables(snapshot)
                /\ financeOutput' = IF RenderThrows(snapshot)
                                    THEN "Failed to load finance data: "
                                            \o RenderErrorText(snapshot)
                                    ELSE financeOutput
    /\ UNCHANGED <<activeMap, layoutVars, panelVars, tabVars, geoVars, log, mapVars, routeVars, lastEvent, surveyVars,
                   financeFormVars, financeSent>>

\* submitFinanceDuplicate after its await.
FinanceDuplicateResponse(request, response) ==
    /\ request \in financeInFlight
    /\ request.kind = "duplicate"
    /\ financeInFlight' = financeInFlight \ {request}
    /\ financeLast' = [request |-> request, response |-> response]
    /\ selectedId' = SelectionAfterResponse(selectedId)
    /\ LET result == safeJsonFetch(response)
           snapshot == DuplicateSnapshot(result.payload)
       IN  IF result.threw
           THEN /\ financeOutput' = "Duplication failed: " \o result.message
                /\ UNCHANGED <<financeSnapshot, financeViews, log>>
           ELSE IF RenderThrows(snapshot)
           THEN /\ renderFinanceTables(snapshot)
                /\ financeOutput' = "Duplication failed: " \o RenderErrorText(snapshot)
                /\ UNCHANGED log
           ELSE /\ renderFinanceTables(snapshot)
                /\ financeOutput' = PrettyTransaction(TheValue(result.payload.value).transaction)
                /\ log' = appendLog(log, "Duplicated transaction "
                                    \o financeForm.source_transaction_id \o ".")
    /\ UNCHANGED <<activeMap, layoutVars, panelVars, tabVars, geoVars, mapVars, routeVars, lastEvent, surveyVars,
                   financeFormVars, financeSent>>

----------------------------------------------------------------------------
(* Tab controller (the dashboard script listed in src/README.md).          *)

TabIds ==
    {"dashboard", "flight-planning", "intelligence", "collaboration",
     "my-equipment", "my-surveys", "support"}

\* An id that names no tab.
UnknownTabs == {"reports"}

Context(title, description, tips) ==
    [title |-> title, description |-> description, tips |-> tips]

\* The sidebar copy of each tab.
tabContext ==
    [tabId \in TabIds |->
        CASE tabId = "dashboard" ->
                Context("Mission overview",
                        "Check fleet stats before deploying the next sortie.",
                        <<"Share the dashboard snapshot during stand-ups.",
                          "Watch for anomalies in acreage or data volume to spot issues early.">>)
          [] tabId = "flight-planning" ->
                Context("Plan your mission area",
                        "Select your provider, draw the capture polygon, and preview routing.",
                        <<"Switch basemaps if local imagery is clearer in Google Maps.",
                          "The debug log records every route request for later analysis.">>)
          [] tabId = "intelligence" ->
                Context("Review automatic classifications",
                        "Generate demo results to confirm the AI stack is reachable.",
                        <<"Compare label probabilities to your mission notes.",
                          "Use the output JSON to debug integration downstream.">>)
          [] tabId = "collaboration" ->
                Context("Collaborate with the team",
                        "Compare captures and record annotations for downstream crews.",
                        <<"Log differences per asset to track remediation progress.",
                          "Annotations are appended instantly so you can iterate fast.">>)
          [] tabId = "my-equipment" ->
                Context("Track fleet condition",
                        "Use the equipment sub-tabs to keep drones and payloads audit-ready.",
                        <<"Capture firmware versions alongside maintenance notes.",
                          "Flag CCTV outages so the ground team can react quickly.">>)
          [] tabId = "my-surveys" ->
                Context("Manage surveys end to end",
                        "Move from planning, to ingestion, to review without leaving the workspace.",
                        <<"Start in the 'New' sub-tab to brief the mission.",
                          "Use 'Visualise' to explore captured assets alongside the map overlay.">>)
          [] OTHER ->
                Context("Support and next steps",
                        "Keep an eye on the roadmap notes and implementation checklist.",
                        <<"Capture operator feedback and add it as annotations.",
                          "Reach out to engineering if new modules are required.">>)]

\* updateSidebar: the texts are replaced from the tab's entry, the tips list
\* being emptied first; an id without an entry leaves the sidebar alone.
updateSidebar(shown, tabId) ==
    IF tabId \notin DOMAIN tabContext THEN shown
    ELSE LET context == tabContext[tabId]
             emptied == SubSeq(shown.tips, 1, 0)
         IN  [title |-> context.title,
              description |-> context.description,
              tips |-> emptied \o context.tips]

\* The timer of activateTab without the test for the tab.
ScheduleRelayout_EveryTab(pending, tabId) ==
    IF leafletMap THEN Append(pending, "leaflet") ELSE pending

\* The timer activateTab sets for state.leaflet.map.invalidateSize().
ScheduleRelayout(pending, tabId) ==
    IF tabId = "flight-planning" /\ leafletMap THEN Append(pending, "leaflet")
    ELSE pending

\* activateTab. The page has one .tab-button and one .tab-panel per tab.
activateTab(tabId) ==
    /\ activeTab' = tabId
    /\ tabButtons' = {button \in TabIds : button = tabId}
    /\ tabPanels' = {panel \in TabIds : panel = tabId}
    /\ sidebar' = updateSidebar(sidebar, tabId)
    /\ log' = appendLog(log, "Activated " \o tabId \o " tab.")
    /\ relayouts' = ScheduleRelayout(relayouts, tabId)
    /\ UNCHANGED <<activeMap, hiddenMaps, panelVars, geoVars, mapVars, routeVars,
                   lastEvent, subButtons, subPanels>>
    /\ UNCHANGED <<surveyVars, financeVars>>

\* The .panel-with-subnav containers of the page, the targets of their
\* .subnav-button elements (each the id of a .subpanel of the container), and
\* their data-subnav-label, which one of them does not carry.
Containers == {"my-equipment", "my-surveys"}
SubTargets(container) ==
    IF container = "my-surveys" THEN {"new", "ingest", "visualise"}
    ELSE {"drones", "payloads"}
SubnavLabel(container) ==
    IF container = "my-surveys" THEN Some("survey") ELSE None
InitialSubTarget(container) ==
    IF container = "my-surveys" THEN "new" ELSE "drones"

\* The click handler of setupSubnavs without the test for an active button.
ClickSubnav_NoGuard(container, target) ==
    /\ subButtons' = [subButtons EXCEPT ![container] =
                        {button \in SubTargets(container) : button = target}]
    /\ subPanels' = [subPanels EXCEPT ![container] =
                        {panel \in SubTargets(container) : panel = target}]
    /\ log' = appendLog(log, "Switched "
                    \o (IF IsSome(SubnavLabel(container))
                        THEN TheValue(SubnavLabel(container)) ELSE "section")
                    \o " subpanel to " \o target \o ".")
    /\ UNCHANGED <<activeMap, layoutVars, panelVars, geoVars, mapVars, routeVars, lastEvent, activeTab,
                   tabButtons, tabPanels, sidebar>>
    /\ UNCHANGED <<surveyVars, financeVars>>

\* The click handler setupSubnavs binds to the button of target in container.
ClickSubnav(container, target) ==
    IF target \in subButtons[container]
    THEN UNCHANGED vars
    ELSE /\ subButtons' = [subButtons EXCEPT ![container] =
                            {button \in SubTargets(container) : button = target}]
         /\ subPanels' = [subPanels EXCEPT ![container] =
                            {panel \in SubTargets(container) : panel = target}]
         /\ log' = appendLog(log, "Switched "
                        \o (IF IsSome(SubnavLabel(container))
                            THEN TheValue(SubnavLabel(container)) ELSE "section")
                        \o " subpanel to " \o target \o ".")
         /\ UNCHANGED <<activeMap, layoutVars, panelVars, geoVars, mapVars, routeVars, lastEvent, activeTab,
                        tabButtons, tabPanels, sidebar>>
         /\ UNCHANGED <<surveyVars, financeVars>>

----------------------------------------------------------------------------
(* Upload, classification and comparison panels.                           *)

Panels == {"upload", "classify", "comparison"}

\* The words that open a panel's failure message.
FailurePrefix(panel) ==
    IF panel = "upload" THEN "Upload failed: "
    ELSE IF panel = "classify" THEN "Classification failed: "
    ELSE "Comparison failed: "

\* submitUpload, runClassification, submitComparison up to their await.
SubmitPanel(panel) ==
    /\ Cardinality(panelInFlight) < MaxPanelRequests
    /\ panel \notin panelInFlight
    /\ panelInFlight' = panelInFlight \cup {panel}
    /\ UNCHANGED <<activeMap, layoutVars, tabVars, geoVars, log, mapVars, routeVars,
                   lastEvent, panelOutput>>
    /\ UNCHANGED <<surveyVars, financeVars>>

PanelResults == {"done"}

\* The text a handler writes once safeJsonFetch has returned or thrown.
OutputText(prefix, result, key) ==
    IF result.threw THEN prefix \o result.message
    ELSE PrettyPayload(result.payload, key)

\* submitUpload, runClassification, submitComparison after their await.
PanelResponse(panel, response) ==
    /\ panel \in panelInFlight
    /\ panelInFlight' = panelInFlight \ {panel}
    /\ panelOutput' = [panelOutput EXCEPT
            ![panel] = OutputText(FailurePrefix(panel), safeJsonFetch(response), "status")]
    /\ UNCHANGED <<activeMap, layoutVars, tabVars, geoVars, log, mapVars, routeVars,
                   lastEvent>>
    /\ UNCHANGED <<surveyVars, financeVars>>

\* The timer set by activateTab runs out: state.leaflet.map.invalidateSize().
RelayoutFires ==
    /\ relayouts # <<>>
    /\ relayouts' = Tail(relayouts)
    /\ UNCHANGED <<activeMap, hiddenMaps, panelVars, tabVars, geoVars, log, mapVars,
                   routeVars, lastEvent>>
    /\ UNCHANGED <<surveyVars, financeVars>>

----------------------------------------------------------------------------

Init ==
    /\ activeMap = "osm"
    /\ drawnGeoJson = Null
    /\ areaInput = ""
    /\ leafletDrawn = NoShape
    /\ leafletMap \in BOOLEAN
    /\ googleMap \in (IF leafletMap THEN BOOLEAN ELSE {FALSE})
    /\ hiddenMaps = {"google-map"}
    /\ relayouts = <<>>
    /\ panelOutput = [panel \in Panels |-> ""]
    /\ panelInFlight = {}
    /\ googlePolygon = NoShape
    /\ drawnItems = <<>>
    /\ googleShown = <<>>
    /\ log = IF leafletMap
             THEN <<IF googleMap THEN "Google Map initialised."
                    ELSE "Google Maps script not detected. Configure API key to enable.",
                    "Leaflet map initialised.",
                    "Activated dashboard tab.">>
             ELSE <<"Activated dashboard tab.">>
    /\ activeTab = "dashboard"
    /\ tabButtons = {"dashboard"}
    /\ tabPanels = {"dashboard"}
    /\ sidebar = updateSidebar(Context("", "", <<>>), "dashboard")
    /\ subButtons = [container \in Containers |-> {InitialSubTarget(container)}]
    /\ subPanels = [container \in Containers |-> {InitialSubTarget(container)}]
    /\ routeInFlight = <<>>
    /\ routeOutput = ""
    /\ lastEvent = [adapter |-> "none", kind |-> "none", run |-> 0]
    /\ surveyCaptures = Some(<<>>)
    /\ surveyList = <<>>
    /\ baseSelect = <<>>
    /\ targetSelect = <<>>
    /\ surveySummary = ""
    /\ pointCloudLink = ""
    /\ assetTable = <<>>
    /\ leafletOverlay = <<>>
    /\ googleOverlay = None
    /\ surveyInFlight = IF leafletMap THEN {1} ELSE {}
    /\ surveySent = IF leafletMap THEN 1 ELSE 0
    /\ surveyLast = [id |-> 0, response |-> NetworkFailure]
    /\ annotationInFlight = 0
    /\ annotationOutput = ""
    /\ financeSnapshot = Snapshot(<<>>, <<>>)
    /\ selectedId = NoSelection
    /\ incomeRows = <<>>
    /\ expenseRows = <<>>
    /\ financeForm = EmptyForm
    /\ financeSummary = ""
    /\ financeOutput = ""
    /\ financeInFlight = IF leafletMap THEN {[id |-> 1, kind |-> "load", source |-> ""]}
                         ELSE {}
    /\ financeSent = IF leafletMap THEN 1 ELSE 0
    /\ financeLast = [request |-> [id |-> 0, kind |-> "none", source |-> ""],
                      response |-> NetworkFailure]

\* The lines logged since the page was set up.
Logged == Len(log) - (IF leafletMap THEN 3 ELSE 1)
LogRoom(bound) == Logged < bound

\* The drawing events of the two adapters.
NextGeometry ==
    \/ LogRoom(MaxLog) /\ \E shape \in Shapes : LeafletCreated(shape)
    \/ LogRoom(MaxLog) /\ \E shape \in Shapes : LeafletEdited(shape)
    \/ LogRoom(MaxLog) /\ \E removed \in BOOLEAN : LeafletDeleted(removed)
    \/ LogRoom(MaxLog) /\ \E overlay \in Shapes : GoogleOverlayComplete(overlay)
    \/ \E overlay \in Shapes : GoogleEdited(overlay)

SpecGeometry == Init /\ [][NextGeometry]_vars

\* The events that write the canonical slot, and the route form.
NextRoute ==
    \/ LogRoom(MaxRouteLog) /\ \E shape \in Shapes : LeafletCreated(shape)
    \/ LogRoom(MaxRouteLog) /\ \E shape \in Shapes : LeafletEdited(shape)
    \/ LogRoom(MaxRouteLog) /\ \E removed \in BOOLEAN : LeafletDeleted(removed)
    \/ LogRoom(MaxRouteLog) /\ \E overlay \in Shapes : GoogleOverlayComplete(overlay)
    \/ \E text \in TypedTexts : OperatorEditsAreaField(text)
    \/ SubmitRoute
    \/ \E i \in 1..MaxRoute, response \in RouteResponses :
            RouteResponse(i, response)

SpecRoute == Init /\ [][NextRoute]_vars

\* Rectangles drawn and reshaped on the Google map.
NextRectangle ==
    \/ LogRoom(MaxRectangleLog) /\
        \E overlay \in {r \in GridRectangles : r.sw.lat <= r.ne.lat} :
            GoogleOverlayComplete(overlay)
    \/ \E overlay \in Rectangles : GoogleEdited(overlay)

SpecRectangle == Init /\ [][NextRectangle]_vars

\* Polygons drawn on the Google map.
NextPolygon ==
    LogRoom(MaxPolygonLog) /\ \E overlay \in PathPolygons : GoogleOverlayComplete(overlay)

SpecPolygon == Init /\ [][NextPolygon]_vars

\* The tab buttons and the sub-navigation buttons.
NextTabs ==
    \/ LogRoom(MaxTabLog) /\ \E tabId \in TabIds \cup UnknownTabs : activateTab(tabId)
    \/ RelayoutFires
    \/ LogRoom(MaxTabLog) /\
        \E container \in Containers : \E target \in SubTargets(container) :
            ClickSubnav(container, target)

SpecTabs == Init /\ [][NextTabs]_vars

\* The route form and the upload, classification and comparison panels.
PanelResponses == FailureResponses \cup SuccessResponses(PanelResults)
NextForms ==
    \/ SubmitRoute
    \/ \E i \in 1..MaxRoute, response \in RouteResponses :
            RouteResponse(i, response)
    \/ \E panel \in Panels : SubmitPanel(panel)
    \/ \E panel \in Panels, response \in PanelResponses : PanelResponse(panel, response)

SpecForms == Init /\ [][NextForms]_vars

\* The capture store: loads, selections and annotations.
SurveyResponses == FailureResponses \cup SuccessResponses(Collections)

NextSurvey ==
    \/ LogRoom(MaxSurveyLog) /\ \E id \in 1..MaxLoads, response \in SurveyResponses :
            SurveyResponse(id, response)
    \/ LogRoom(MaxSurveyLog) /\ \E i \in 1..2 : SelectCapture(i)
    \/ SubmitAnnotation
    \/ surveySent < MaxLoads /\
        \E response \in AnnotationResponses :
            AnnotationResponse(response)

SpecSurvey == Init /\ [][NextSurvey]_vars

\* The finance store: the initial load, selections and duplicate requests.
FinanceLoadResponses == FailureResponses \cup SuccessResponses(Snapshots)
FinanceDuplicateResponses == FailureResponses \cup SuccessResponses(DuplicateResults)

NextFinance ==
    \/ \E request \in financeInFlight, response \in FinanceLoadResponses :
            FinanceLoadResponse(request, response)
    \/ LogRoom(MaxFinanceLog) /\
        \E request \in financeInFlight, response \in FinanceDuplicateResponses :
            FinanceDuplicateResponse(request, response)
    \/ \E i \in 1..2 : ClickDuplicate(incomeRows, i)
    \/ \E i \in 1..2 : ClickDuplicate(expenseRows, i)
    \/ clearFinanceSelection
    \/ SubmitFinanceDuplicate

SpecFinance == Init /\ [][NextFinance]_vars

\* Both stores together. The stores share no state but the log, so the runs
\* explored answer the requests of one store while the other store's first
\* load is still awaited.
SurveyUntouched ==
    surveyLast.id = 0 /\ surveySent <= 1 /\ annotationInFlight = 0
FinanceUntouched ==
    financeLast.request.id = 0 /\ financeSent <= 1 /\ financeOutput = ""

NextStores ==
    \/ FinanceUntouched /\ LogRoom(MaxStoresLog) /\
        \E id \in 1..MaxLoads, response \in SurveyResponses :
            SurveyResponse(id, response)
    \/ FinanceUntouched /\ SubmitAnnotation
    \/ FinanceUntouched /\ surveySent < MaxLoads /\
        \E response \in AnnotationResponses :
            AnnotationResponse(response)
    \/ SurveyUntouched /\
        \E request \in financeInFlight, response \in FinanceLoadResponses :
            FinanceLoadResponse(request, response)
    \/ SurveyUntouched /\ LogRoom(MaxStoresLog) /\
        \E request \in financeInFlight, response \in FinanceDuplicateResponses :
            FinanceDuplicateResponse(request, response)
    \/ SurveyUntouched /\ \E i \in 1..2 : ClickDuplicate(incomeRows, i)
    \/ SurveyUntouched /\ \E i \in 1..2 : ClickDuplicate(expenseRows, i)
    \/ SurveyUntouched /\ SubmitFinanceDuplicate

SpecStores == Init /\ [][NextStores]_vars

\* Capture loads and the annotations that start them, with every response
\* delivered: the browser settles each fetch and runs the continuation of its
\* await.
NextFetch ==
    \/ surveySent + annotationInFlight < MaxFetches /\ SubmitAnnotation
    \/ \E response \in AnnotationResponses : AnnotationResponse(response)
    \/ \E id \in 1..MaxFetches, response \in SurveyResponses : SurveyResponse(id, response)

FetchFairness ==
    /\ WF_vars(\E response \in AnnotationResponses : AnnotationResponse(response))
    /\ \A id \in 1..MaxFetches :
        WF_vars(\E response \in SurveyResponses : SurveyResponse(id, response))

SpecFetch == Init /\ [][NextFetch]_vars /\ FetchFairness

\* The provider toggle next to drawing and capture selection.
NextMaps ==
    \/ LogRoom(MaxMapsLog) /\ \E provider \in Providers : toggleMap(provider)
    \/ LogRoom(MaxMapsLog) /\ \E shape \in Rectangles : LeafletCreated(shape)
    \/ LogRoom(MaxMapsLog) /\ \E overlay \in Rectangles : GoogleOverlayComplete(overlay)
    \/ LogRoom(MaxMapsLog) /\
        \E id \in 1..MaxLoads, response \in SurveyResponses :
            SurveyResponse(id, response)
    \/ LogRoom(MaxMapsLog) /\ \E i \in 1..2 : SelectCapture(i)

SpecMaps == Init /\ [][NextMaps]_vars

----------------------------------------------------------------------------
(* Properties of the Geometry Canonicalizer and the adapters.              *)

\* The geometry an adapter's current shape converts to.
AdapterGeometry(adapter) ==
    IF adapter = "leaflet" THEN LeafletToGeoJSON(leafletDrawn)
    ELSE GoogleToGeoJSON(googlePolygon)

\* The value the serialized copy should have for a canonical geometry.
SerializedCopy(geojson) == IF geojson = Null THEN "" ELSE JSONstringify(geojson)

\* C1: after any sequence of draw, edit and delete events of the two adapters
\* the canonical slot holds the geometry of the most recent draw or edit, and
\* is absent when the most recent event is a delete or there was none.
C1_SlotHoldsLatestEvent ==
    /\ lastEvent.kind \in {"draw", "edit"} =>
            drawnGeoJson = AdapterGeometry(lastEvent.adapter)
    /\ lastEvent.kind \in {"delete", "none"} => drawnGeoJson = Null

\* A step that calls setDrawnGeometry.
SetGeometryCalled ==
    \/ \E shape \in Shapes : LeafletCreated(shape)
    \/ \E shape \in Shapes : LeafletEdited(shape)
    \/ \E removed \in BOOLEAN : LeafletDeleted(removed)
    \/ \E overlay \in Shapes : GoogleOverlayComplete(overlay)

\* C2: in every state reached through setGeometry calls the area field is the
\* JSON text of the canonical geometry, or empty when it is absent, and every
\* setGeometry call puts exactly one line on the log, saying set or cleared.
C2_SerializedCopyAndLog ==
    /\ [](areaInput = SerializedCopy(drawnGeoJson))
    /\ [][SetGeometryCalled =>
            log' = <<IF drawnGeoJson' = Null
                     THEN "Cleared capture polygon."
                     ELSE "Updated capture polygon from map interaction.">> \o log]_vars

\* C2 witness: a geometry was set and then cleared.
C2_Witness ==
    /\ Len(log) >= 4
    /\ log[1] = "Cleared capture polygon."
    /\ log[2] = "Updated capture polygon from map interaction."
    /\ drawnGeoJson = Null
    /\ areaInput = ""

C4_DrawEditDeleteDraw ==
    /\ lastEvent.run \in {2, 4} => drawnGeoJson = AdapterGeometry(lastEvent.adapter)
    /\ lastEvent.run = 3 => drawnGeoJson = Null

----------------------------------------------------------------------------
(* Properties of the capture store.                                        *)

\* A /survey-days response that carries a capture list.
CarriesCaptures(response) ==
    response.net /\ response.ok /\ response.json /\ IsSome(response.value)

\* The messages of the failures of a capture load.
SurveyFailureTexts ==
    {safeJsonFetch(response).message : response \in FailureResponses} \cup
    {"Cannot read properties of undefined (reading 'forEach')"}

\* C6: a capture load that fails (network failure, non-success status, or a
\* body that is not JSON or carries no capture list) leaves the stored
\* collection and the rendered list as they were and adds exactly one log
\* line, which carries the failure text.
C6_FailedLoadChangesNothing ==
    [][\A id \in surveyInFlight, response \in SurveyResponses :
        (SurveyResponse(id, response) /\ ~CarriesCaptures(response)) =>
            /\ surveyCaptures' = surveyCaptures
            /\ surveyList' = surveyList
            /\ \E text \in SurveyFailureTexts :
                 log' = appendLog(log, "Failed to load survey days: " \o text)]_vars

\* C7: a successful capture load leaves the response's captures, and nothing
\* else, in the store, and the list and both selectors hold one entry per
\* stored capture, in stored order.
C7_SuccessfulLoadReplaces ==
    [][\A id \in surveyInFlight, response \in SurveyResponses :
        (SurveyResponse(id, response) /\ CarriesCaptures(response)) =>
            LET captures == TheValue(response.value)
            IN  /\ surveyCaptures' = Some(captures)
                /\ Len(surveyList') = Len(captures)
                /\ Len(baseSelect') = Len(captures)
                /\ Len(targetSelect') = Len(captures)
                /\ \A i \in 1..Len(captures) :
                     /\ surveyList'[i].capture = captures[i]
                     /\ baseSelect'[i].value = captures[i].capture_id
                     /\ targetSelect'[i].value = captures[i].capture_id]_vars

\* C7 witness: a second successful load in a row has put two captures in the
\* store and in the views.
C7_Witness ==
    /\ Len(log) >= 4
    /\ log[1] = "Survey list rendered."
    /\ log[2] = "Survey list rendered."
    /\ surveyCaptures = Some(<<Capture("cap-2"), Capture("cap-1")>>)
    /\ Len(surveyList) = 2
    /\ Len(baseSelect) = 2

\* Every button of the capture list shows a capture of the stored collection.
ButtonsCurrent ==
    \A i \in 1..Len(surveyList) :
        /\ IsSome(surveyCaptures)
        /\ surveyList[i].capture \in Elements(TheValue(surveyCaptures))

\* C8: the details rendered by a selection are those of a capture of the
\* collection stored at that time; no button selects anything else.
C8_SelectionIsCurrent ==
    /\ []ButtonsCurrent
    /\ [][\A i \in 1..Len(surveyList) : SelectCapture(i) =>
            /\ IsSome(surveyCaptures')
            /\ \E c \in Elements(TheValue(surveyCaptures')) :
                 /\ surveySummary' = SummaryText(c)
                 /\ assetTable' = AssetRows(c)
                 /\ leafletMap => leafletOverlay' = <<c.overlay>>]_vars

\* C8 witness: after two loads, the details of the second capture are shown.
C8_Witness ==
    /\ Len(log) >= 5
    /\ log[1] = "Loaded survey details for cap-2."
    /\ log[2] = "Survey list rendered."
    /\ log[3] = "Survey list rendered."
    /\ surveySummary = SummaryText(Capture("cap-2"))
    /\ surveyCaptures = Some(<<Capture("cap-2")>>)

\* C5: when loads of one collection overlap and succeed, the store and its
\* views are those of the response handled last, whichever request was sent
\* first.
C5_LastCompletedWins ==
    /\ (surveyLast.id # 0 /\ CarriesCaptures(surveyLast.response)) =>
        LET captures == TheValue(surveyLast.response.value)
        IN  /\ surveyCaptures = Some(captures)
            /\ surveyList = [i \in 1..Len(captures) |-> SurveyItem(captures[i])]
            /\ baseSelect = [i \in 1..Len(captures) |-> SurveyOption(captures[i])]
            /\ targetSelect = baseSelect
    /\ (financeLast.request.id # 0 /\ CarriesCaptures(financeLast.response)) =>
        LET value == TheValue(financeLast.response.value)
            snapshot == IF financeLast.request.kind = "load" THEN value
                        ELSE value.snapshot
        IN  /\ financeSnapshot = snapshot
            /\ incomeRows = renderRows(snapshot.income, selectedId)
            /\ expenseRows = renderRows(snapshot.expenses, selectedId)

\* C5 witness: two capture loads overlapped and both succeeded, and the one
\* sent first was handled last.
C5_Witness ==
    /\ surveySent = 2
    /\ surveyInFlight = {}
    /\ surveyLast.id = 1
    /\ Len(log) >= 4
    /\ log[1] = "Survey list rendered."
    /\ log[2] = "Survey list rendered."
    /\ surveyCaptures = Some(<<Capture("cap-1")>>)

\* A finance response that carries what its handler renders.
CarriesSnapshot(response) == CarriesCaptures(response)

\* C9: the stored finance snapshot changes only when a finance load or a
\* duplicate succeeds, and then to the snapshot received; a load or duplicate
\* that fails (network failure, non-success status, or a response without
\* the snapshot lists) leaves it unchanged.
C9_SnapshotReplacedOnlyOnSuccess ==
    [][/\ \A request \in financeInFlight, response \in FinanceLoadResponses :
            (FinanceLoadResponse(request, response) /\ ~CarriesSnapshot(response)) =>
                financeSnapshot' = financeSnapshot
       /\ \A request \in financeInFlight, response \in FinanceDuplicateResponses :
            (FinanceDuplicateResponse(request, response) /\ ~CarriesSnapshot(response)) =>
                financeSnapshot' = financeSnapshot
       /\ financeSnapshot' # financeSnapshot => financeSnapshot' \in Snapshots]_vars

\* A step that handles a finance response.
FinanceResponseHandled ==
    \E request \in financeInFlight :
        \/ \E response \in FinanceLoadResponses : FinanceLoadResponse(request, response)
        \/ \E response \in FinanceDuplicateResponses :
                FinanceDuplicateResponse(request, response)

\* C10: one id at most is selected; handling a finance response, successful
\* or not, never changes it, and nothing but a pick or a clear does.
C10_SelectionChangesOnlyByOperator ==
    /\ [](selectedId \in TransactionIds \cup {NoSelection})
    /\ [][FinanceResponseHandled => selectedId' = selectedId]_vars
    /\ [][selectedId' # selectedId =>
            \/ \E i \in 1..2 : ClickDuplicate(incomeRows, i) \/ ClickDuplicate(expenseRows, i)
            \/ clearFinanceSelection]_vars

\* C10 witness: a duplicate of the selected transaction has succeeded and the
\* selection is still there.
C10_Witness ==
    /\ selectedId = "t2"
    /\ financeLast.request.kind = "duplicate"
    /\ CarriesSnapshot(financeLast.response)
    /\ log[1] = "Duplicated transaction t2."

\* The rows of both finance table bodies.
FinanceRows == incomeRows \o expenseRows

\* C11: after every re-render of the finance tables and after every select
\* or clear, a rendered transaction row is highlighted exactly when its
\* transaction id is the selected id.
C11_HighlightIffSelected ==
    \A i \in 1..Len(FinanceRows) :
        FinanceRows[i].selected <=>
            (FinanceRows[i].button /\ FinanceRows[i].transactionId = selectedId)

\* C11 witness: the tables were re-rendered by a successful duplicate while t2
\* was selected, and show t2 highlighted next to a row that is not.
C11_Witness ==
    /\ selectedId = "t2"
    /\ financeLast.request.kind = "duplicate"
    /\ CarriesSnapshot(financeLast.response)
    /\ Len(expenseRows) = 2
    /\ expenseRows[1].transactionId = "t2" /\ expenseRows[1].selected
    /\ expenseRows[2].transactionId = "t3" /\ ~expenseRows[2].selected
    /\ incomeRows = renderRows(<<Transaction("t1")>>, "t2")

\* The duplicate form as it stands after a transaction was picked.
FormOf(transaction) ==
    [source_transaction_id |-> transaction.transaction_id,
     description |-> transaction.description,
     category |-> transaction.category,
     amount |-> ToString(transaction.amount),
     occurred_on |-> transaction.occurred_on,
     transaction_type |-> transaction.transaction_type,
     metadata |-> IF transaction.metadata = <<>> THEN ""
                  ELSE PrettyMetadata(transaction.metadata)]

\* C12: a pick fills every field of the duplicate form from the transaction
\* picked, whatever was picked before, and selects it; a submission sends the
\* transaction picked last as the source.
C12_SecondPickReplacesForm ==
    /\ [](selectedId # NoSelection => financeForm = FormOf(Transaction(selectedId)))
    /\ [][\A rows \in {incomeRows, expenseRows}, i \in 1..2 :
            ClickDuplicate(rows, i) =>
                /\ selectedId' = rows[i].transactionId
                /\ financeForm' = FormOf(Transaction(rows[i].transactionId))]_vars
    /\ [][(SubmitFinanceDuplicate /\ selectedId # NoSelection) =>
            financeInFlight' \ financeInFlight =
                {[id |-> financeSent + 1, kind |-> "duplicate", source |-> selectedId]}]_vars

\* C12 witness: t1 (with metadata) was picked and duplicated, then t2 (without)
\* was picked and submitted.
C12_Witness ==
    /\ log[1] = "Duplicated transaction t1."
    /\ selectedId = "t2"
    /\ financeForm = FormOf(Transaction("t2"))
    /\ financeForm.metadata = ""
    /\ \E request \in financeInFlight :
            request.kind = "duplicate" /\ request.source = "t2"

\* C13: a submission of the duplicate form while nothing is selected sends no
\* request, shows the guidance message and leaves snapshot and selection alone.
C13_SubmitWithoutSourceRefused ==
    [][(SubmitFinanceDuplicate /\ selectedId = NoSelection) =>
        /\ financeInFlight' = financeInFlight
        /\ financeSent' = financeSent
        /\ financeOutput' = "Choose an entry to duplicate before submitting."
        /\ financeSnapshot' = financeSnapshot
        /\ selectedId' = selectedId]_vars

\* C13 witness: t2 was duplicated, the selection was cleared, and the
\* submission that followed was refused.
C13_Witness ==
    /\ log[1] = "Duplicated transaction t2."
    /\ selectedId = NoSelection
    /\ financeForm = EmptyForm
    /\ financeInFlight = {}
    /\ financeOutput = "Choose an entry to duplicate before submitting."

\* The ring of a Polygon geometry.
RingOf(geometry) == geometry.coordinates[1]

\* C14: a rectangle drawn on the Google map with south-west corner (w, s) and
\* north-east corner (e, n) gives the 5-point ring [w,s], [e,s], [e,n],
\* [w,n], [w,s], also when it has no width or no height.
C14_GoogleRectangleRing ==
    (lastEvent.adapter = "google" /\ lastEvent.kind = "draw"
        /\ googlePolygon.kind = "rectangle") =>
        LET w == googlePolygon.sw.lng
            s == googlePolygon.sw.lat
            e == googlePolygon.ne.lng
            n == googlePolygon.ne.lat
        IN  /\ drawnGeoJson.type = "Polygon"
            /\ Len(drawnGeoJson.coordinates) = 1
            /\ Len(RingOf(drawnGeoJson)) = 5
            /\ RingOf(drawnGeoJson) = <<<<w, s>>, <<e, s>>, <<e, n>>, <<w, n>>, <<w, s>>>>
            /\ RingOf(drawnGeoJson)[1] = RingOf(drawnGeoJson)[5]

\* C14 witness: a rectangle of no width was drawn on the Google map.
C14_Witness ==
    /\ lastEvent.adapter = "google" /\ lastEvent.kind = "draw"
    /\ googlePolygon.kind = "rectangle"
    /\ googlePolygon.sw.lng = googlePolygon.ne.lng
    /\ googlePolygon.sw.lat < googlePolygon.ne.lat
    /\ drawnGeoJson # Null
    /\ RingOf(drawnGeoJson)[1] = RingOf(drawnGeoJson)[2]

\* C15: the canonical slot holds a Polygon with a closed ring of [lng, lat]
\* pairs whichever adapter wrote it, and a shape drawn on the Leaflet map is
\* stored as the same shape drawn on the Google map would be.
C15_SameRepresentation ==
    drawnGeoJson # Null =>
        /\ drawnGeoJson.type = "Polygon"
        /\ RingOf(drawnGeoJson)[1] = RingOf(drawnGeoJson)[Len(RingOf(drawnGeoJson))]
        /\ (lastEvent.adapter = "leaflet" /\ lastEvent.kind \in {"draw", "edit"}) =>
                drawnGeoJson = GoogleToGeoJSON(leafletDrawn)

\* A table body that shows the placeholder and nothing else: one row, without
\* a duplicate control and without a transaction id.
ShowsPlaceholder(rows) ==
    /\ Len(rows) = 1
    /\ ~rows[1].button
    /\ rows[1].transactionId = ""
    /\ ~rows[1].selected
    /\ rows[1].text = "No entries recorded yet."

\* C16: when a list of the rendered finance snapshot is empty its table body
\* holds exactly one placeholder row, without duplicate control and without
\* transaction id, and no click selects anything through such a row.
C16_EmptyListShowsPlaceholder ==
    /\ [][\A request \in financeInFlight,
            response \in FinanceLoadResponses \cup FinanceDuplicateResponses :
            ((FinanceLoadResponse(request, response)
                    \/ FinanceDuplicateResponse(request, response))
                /\ CarriesSnapshot(response)) =>
                /\ financeSnapshot'.income = <<>> => ShowsPlaceholder(incomeRows')
                /\ financeSnapshot'.expenses = <<>> => ShowsPlaceholder(expenseRows')]_vars
    /\ []((financeSnapshot.kind = "snapshot" /\ financeSnapshot.income = <<>>
                /\ incomeRows # <<>>) => ShowsPlaceholder(incomeRows))
    /\ []((financeSnapshot.kind = "snapshot" /\ financeSnapshot.expenses = <<>>
                /\ expenseRows # <<>>) => ShowsPlaceholder(expenseRows))
    /\ [][\A rows \in {incomeRows, expenseRows}, i \in 1..2 :
            ClickDuplicate(rows, i) => rows[i].button /\ rows[i].transactionId # ""]_vars

\* C16 witness: a snapshot without income and with expenses is rendered.
C16_Witness ==
    /\ CarriesSnapshot(financeLast.response)
    /\ financeSnapshot = Snapshot(<<>>, <<Transaction("t2")>>)
    /\ ShowsPlaceholder(incomeRows)
    /\ Len(expenseRows) = 1 /\ expenseRows[1].button

\* C17: the capture list and the asset table of a selected capture, like the
\* finance tables, show exactly one placeholder row when their collection is
\* empty, never an empty list or table body.
C17_EveryViewShowsPlaceholder ==
    /\ (surveyLast.id # 0 /\ CarriesCaptures(surveyLast.response)
            /\ surveyCaptures = Some(<<>>)) =>
                Len(surveyList) = 1 /\ "capture" \notin DOMAIN surveyList[1]
    /\ \A c \in Captures :
        (surveySummary = SummaryText(c) /\ c.assets = <<>>) =>
                Len(assetTable) = 1 /\ "asset" \notin DOMAIN assetTable[1]

----------------------------------------------------------------------------
(* Properties of the tab controller.                                       *)

\* C18: activateTab with an id that names no tab changes nothing: the active
\* tab, the active button and panel, the sidebar and the log stay as they were.
C18_UnknownTabIsNoOp ==
    [][\A tabId \in UnknownTabs : activateTab(tabId) =>
            UNCHANGED <<activeTab, tabButtons, tabPanels, sidebar, log>>]_vars

\* C19: from the start and after any activateTab calls exactly one tab button
\* and one tab panel are active, both of the tab recorded as active, and the
\* sidebar shows exactly the title, description and tips of that tab's entry.
C19_OneActiveTab ==
    /\ activeTab \in TabIds
    /\ Cardinality(tabButtons) = 1
    /\ Cardinality(tabPanels) = 1
    /\ tabButtons = {activeTab}
    /\ tabPanels = {activeTab}
    /\ sidebar = tabContext[activeTab]

\* The log line of a switch to target in container.
SwitchedLine(container, target) ==
    "Switched " \o (IF container = "my-surveys" THEN "survey" ELSE "section")
        \o " subpanel to " \o target \o "."

\* C20: a click on the active sub-tab changes no sub-button, no sub-panel and
\* not the log; a click on another sub-tab of a container leaves exactly that
\* sub-button and that sub-panel of the container active, leaves the other
\* containers alone and adds one log line carrying the container's label.
C20_SubtabSwitch ==
    /\ [](\A container \in Containers :
            /\ Cardinality(subButtons[container]) = 1
            /\ subPanels[container] = subButtons[container])
    /\ [][\A container \in Containers : \A target \in SubTargets(container) :
            ClickSubnav(container, target) =>
                IF target \in subButtons[container]
                THEN UNCHANGED <<subButtons, subPanels, log>>
                ELSE /\ subButtons'[container] = {target}
                     /\ subPanels'[container] = {target}
                     /\ \A other \in Containers \ {container} :
                            /\ subButtons'[other] = subButtons[other]
                            /\ subPanels'[other] = subPanels[other]
                     /\ log' = <<SwitchedLine(container, target)>> \o log]_vars

\* C20 witness: a sub-tab of each container was switched, the second in a
\* container without a label of its own.
C20_Witness ==
    /\ Len(log) >= 5
    /\ log[1] = "Switched section subpanel to payloads."
    /\ log[2] = "Switched survey subpanel to visualise."
    /\ subButtons["my-equipment"] = {"payloads"}
    /\ subPanels["my-surveys"] = {"visualise"}

----------------------------------------------------------------------------
(* Properties of the provider toggle, the overlays and page set-up.        *)

\* The container of a provider's map.
ContainerOf(provider) == IF provider = "osm" THEN "leaflet-map" ELSE "google-map"

\* C21: a toggle to 'osm' or 'google' leaves exactly the selected provider's
\* container visible and changes neither the canonical geometry nor the
\* drawn shape or the overlay of either adapter; the visible container is
\* always that of the active provider, so toggling back restores the view.
C21_ToggleShowsOneMap ==
    /\ [](MapContainers \ hiddenMaps = {ContainerOf(activeMap)})
    /\ [][\A provider \in Providers : toggleMap(provider) =>
            /\ MapContainers \ hiddenMaps' = {ContainerOf(provider)}
            /\ UNCHANGED <<drawnGeoJson, areaInput, leafletDrawn, googlePolygon,
                           leafletOverlay, googleOverlay>>]_vars

\* C21 witness: with a shape drawn and the overlay of a capture shown, the
\* provider was switched to google and back to osm.
C21_Witness ==
    /\ Len(log) >= 2
    /\ log[1] = "Switched basemap to osm."
    /\ log[2] = "Switched basemap to google."
    /\ leafletDrawn # NoShape
    /\ leafletOverlay # <<>>
    /\ drawnGeoJson = LeafletToGeoJSON(leafletDrawn)
    /\ activeMap = "osm"
    /\ hiddenMaps = {"google-map"}

ProviderDiagnostics(provider) ==
    IF provider = "google"
    THEN {"Google Maps script not detected. Configure API key to enable."}
    ELSE {}

\* The adapter of a provider was initialised at page load.
AdapterInitialised(provider) == IF provider = "osm" THEN leafletMap ELSE googleMap

\* C23: for either provider, when its library failed to load the log holds
\* exactly one diagnostic line naming the provider, and the initialisation
\* steps after the map set-up (the survey and the finance loads) have run.
C23_LibraryFailureTolerated ==
    \A provider \in Providers :
        ~AdapterInitialised(provider) =>
            /\ Cardinality({i \in DOMAIN log :
                   log[i] \in ProviderDiagnostics(provider)}) = 1
            /\ surveySent >= 1
            /\ financeSent >= 1

\* A request that failed: the network is unreachable, the body is not JSON,
\* or the status is a non-success one.
RequestFailed(response) == ~response.net \/ ~response.json \/ ~response.ok

\* The non-empty details a failure message can carry.
FailureMessages == {"Failed to fetch", "{}"} \cup (Details \ {""})

\* text is a failure message: the action's prefix followed by a detail.
IsFailureText(prefix, text) == \E message \in FailureMessages : text = prefix \o message

\* text is what a finished handler must show for response.
IsOutcomeOf(prefix, response, key, text) ==
    IF RequestFailed(response)
    THEN IsFailureText(prefix, text)
    ELSE text = PrettyPayload([detail |-> response.detail, value |-> response.value], key)

\* C24: each submission of the route, upload, classification and comparison
\* actions issues exactly one request, its completion issues none, and the
\* output area then holds the pretty-printed response of a success or the
\* prefixed failure message of a failure.
C24_OneRequestOneOutcome ==
    [][/\ SubmitRoute => Len(routeInFlight') = Len(routeInFlight) + 1
       /\ \A panel \in Panels :
            SubmitPanel(panel) => panelInFlight' = panelInFlight \cup {panel}
       /\ \A i \in 1..MaxRoute, response \in RouteResponses :
            RouteResponse(i, response) =>
                /\ Len(routeInFlight') = Len(routeInFlight) - 1
                /\ IsOutcomeOf("Route planning failed: ", response, "plan", routeOutput')
       /\ \A panel \in Panels, response \in PanelResponses :
            PanelResponse(panel, response) =>
                /\ panelInFlight' = panelInFlight \ {panel}
                /\ IsOutcomeOf(FailurePrefix(panel), response, "status",
                               panelOutput'[panel])]_vars

\* C25: every failed request, whatever made it fail, ends with a non-empty
\* failure message in the output area of its panel.
C25_FailureSurfaced ==
    [][/\ \A i \in 1..MaxRoute, response \in RouteResponses :
            RequestFailed(response) /\ RouteResponse(i, response) =>
                IsFailureText("Route planning failed: ", routeOutput')
       /\ \A panel \in Panels, response \in PanelResponses :
            RequestFailed(response) /\ PanelResponse(panel, response) =>
                IsFailureText(FailurePrefix(panel), panelOutput'[panel])]_vars

\* C26: submitting the route form while no geometry is held issues no request
\* and renders a message in the route output area.
C26_RouteGuard ==
    [][drawnGeoJson = Null /\ SubmitRoute =>
            /\ routeInFlight' = routeInFlight
            /\ routeOutput' # ""]_vars

\* C27: a failed capture load changes only the log and a failed annotation
\* only the annotation output: the geometry, the stored collections, the
\* selection and the output areas of the other panels stay as they were.
C27_FailureIsLocal ==
    [][/\ \A id \in surveyInFlight, response \in SurveyResponses :
            RequestFailed(response) /\ SurveyResponse(id, response) =>
                UNCHANGED <<drawnGeoJson, surveyCaptures, financeSnapshot, selectedId,
                            routeOutput, panelOutput, annotationOutput, financeOutput>>
       /\ \A response \in AnnotationResponses :
            RequestFailed(response) /\ AnnotationResponse(response) =>
                UNCHANGED <<drawnGeoJson, surveyCaptures, financeSnapshot, selectedId,
                            routeOutput, panelOutput, financeOutput, log>>]_vars

\* C28: the completion of a successful annotation starts exactly one capture
\* load, and the completion of a failed one starts none.
C28_RefreshAfterAnnotation ==
    [][\A response \in AnnotationResponses :
        AnnotationResponse(response) =>
            IF RequestFailed(response)
            THEN UNCHANGED <<surveySent, surveyInFlight>>
            ELSE /\ surveySent' = surveySent + 1
                 /\ surveyInFlight' = surveyInFlight \cup {surveySent'}]_vars

\* The adapter behind a provider's container.
AdapterOf(provider) == IF provider = "osm" THEN "leaflet" ELSE "google"

\* C29: a toggle that unhides a provider's container schedules a re-layout of
\* that provider's adapter.
C29_ToggleRelayout ==
    [][\A provider \in Providers :
        (toggleMap(provider) /\ ContainerOf(provider) \in hiddenMaps) =>
            relayouts' = Append(relayouts, AdapterOf(provider))]_vars

\* C30: activateTab schedules one re-layout of the Leaflet map when the tab
\* is flight-planning and the Leaflet map was initialised, and none otherwise.
C30_RelayoutOnlyOnFlightPlanning ==
    [][\A tabId \in TabIds \cup UnknownTabs :
        activateTab(tabId) =>
            IF tabId = "flight-planning" /\ leafletMap
            THEN relayouts' = Append(relayouts, "leaflet")
            ELSE relayouts' = relayouts]_vars

\* C30 witness: the flight-planning tab was activated with the Leaflet map
\* initialised and its re-layout is pending.
C30_Witness ==
    /\ leafletMap
    /\ log[1] = "Activated flight-planning tab."
    /\ relayouts = <<"leaflet">>

----------------------------------------------------------------------------
(* Properties of requests in flight.                                       *)

\* C31: every capture load that was issued is eventually completed by its own
\* handler, also when later loads were issued while it was in flight.
C31_EveryLoadCompletes ==
    \A id \in 1..MaxFetches : (id \in surveyInFlight) ~> (surveyLast.id = id)

\* C31 witness: the first load is still in flight after a later load was
\* issued and completed.
C31_Witness ==
    /\ 1 \in surveyInFlight
    /\ surveyLast.id = 2

----------------------------------------------------------------------------
(* Properties of drawn polygons and of the shapes the adapters hold.       *)

\* C32: a polygon drawn on the Google map with a path of n >= 1 points gives
\* the ring of the n path points in path order, each as [lng, lat], followed
\* by a copy of the first: n + 1 points, the first equal to the last.
C32_GooglePolygonRing ==
    (lastEvent.adapter = "google" /\ lastEvent.kind = "draw"
        /\ googlePolygon.kind = "polygon") =>
        LET path == googlePolygon.path
            n == Len(path)
            ring == RingOf(drawnGeoJson)
        IN  /\ drawnGeoJson.type = "Polygon"
            /\ Len(drawnGeoJson.coordinates) = 1
            /\ Len(ring) = n + 1
            /\ \A i \in 1..n : ring[i] = <<path[i].lng, path[i].lat>>
            /\ ring[n + 1] = <<path[1].lng, path[1].lat>>
            /\ ring[1] = ring[n + 1]

\* C32 witness: a polygon of one point was drawn as the second shape.
C32_Witness ==
    /\ lastEvent.adapter = "google" /\ lastEvent.kind = "draw"
    /\ googlePolygon = [kind |-> "polygon", path |-> <<LatLng(0, 1)>>]
    /\ Logged = 2
    /\ RingOf(drawnGeoJson) = <<<<1, 0>>, <<1, 0>>>>

\* C33: each adapter holds at most one drawn shape, the one drawn last on it.
C33_OneShapePerAdapter ==
    /\ Len(drawnItems) <= 1
    /\ Len(googleShown) <= 1
    /\ leafletDrawn # NoShape => drawnItems = <<leafletDrawn>>
    /\ googlePolygon # NoShape => googleShown = <<googlePolygon>>

\* C33 witness: two shapes were drawn on the Leaflet map, one after the
\* other, and nothing else happened.
C33_Witness ==
    /\ Logged = 2
    /\ \A i \in 1..2 : log[i] = "Updated capture polygon from map interaction."
    /\ lastEvent.adapter = "leaflet" /\ lastEvent.kind = "draw"
    /\ googlePolygon = NoShape
    /\ leafletDrawn.kind = "polygon"
    /\ drawnItems = <<leafletDrawn>>

\* C34: while the canonical geometry is absent neither adapter displays a
\* drawn shape, and while it is set it is the geometry of a shape displayed
\* on one of the adapters.
C34_GeometryMatchesDisplay ==
    /\ drawnGeoJson = Null => drawnItems = <<>> /\ googleShown = <<>>
    /\ drawnGeoJson # Null =>
        \/ \E i \in 1..Len(drawnItems) : drawnGeoJson = LeafletToGeoJSON(drawnItems[i])
        \/ \E i \in 1..Len(googleShown) : drawnGeoJson = GoogleToGeoJSON(googleShown[i])

----------------------------------------------------------------------------
(* Properties of requests answered after the page has changed.             *)

\* C35: the log line written after a successful duplicate names the
\* transaction id sent as the source of that request, whatever the operator
\* selected or cleared while it was in flight.
C35_LogNamesRequestSource ==
    [][\A request \in financeInFlight, response \in FinanceDuplicateResponses :
        (FinanceDuplicateResponse(request, response) /\ log' # log) =>
            log' = appendLog(log, "Duplicated transaction " \o request.source \o ".")]_vars

\* C36: the source field of the duplicate form is empty exactly when no
\* transaction is selected, and otherwise holds the selected id.
C36_FormAgreesWithSelection ==
    /\ financeForm.source_transaction_id = "" <=> selectedId = NoSelection
    /\ selectedId # NoSelection => financeForm.source_transaction_id = selectedId

\* C36 witness: the income entry is selected while a duplicate of the expense
\* entry, selected before it, is in flight.
C36_Witness ==
    /\ selectedId = "t1"
    /\ financeForm.source_transaction_id = "t1"
    /\ \E request \in financeInFlight : request.kind = "duplicate" /\ request.source = "t2"

\* C37: the completion of a capture load, the one that follows a successful
\* annotation included, leaves the annotation output as it was; a load that
\* fails adds its one line to the log.
C37_RefreshKeepsAnnotationOutput ==
    [][\A id \in surveyInFlight, response \in SurveyResponses :
        SurveyResponse(id, response) =>
            /\ annotationOutput' = annotationOutput
            /\ ~CarriesCaptures(response) =>
                \E text \in SurveyFailureTexts :
                    log' = appendLog(log, "Failed to load survey days: " \o text)]_vars

\* C37 witness: the load started by a successful annotation has failed and
\* the annotation output still shows the acknowledgement.
C37_Witness ==
    /\ leafletMap
    /\ surveyLast.id = 2
    /\ log[1] = "Failed to load survey days: Failed to fetch"
    /\ annotationOutput = PrettyPayload([detail |-> "", value |-> Some("saved")], "status")

====
